---- MODULE Spec2Model ----
(***************************************************************************)
(* Conversation relay of openai-whatsapp-chatbot: the two webhook handlers *)
(*   src/app/whatsapp/app.py        reply_to_whatsapp_message (Twilio)     *)
(*   src/app/whatsapp_cloud_app.py  process_webhook           (Cloud API)  *)
(* and the Cloud client of src/chat/clients/whatsapp_cloud.py.             *)
(*                                                                         *)
(* A text is a sequence of Unicode code points.  Some code the handlers    *)
(* call is not part of the sources at hand (app.handlers,                  *)
(* app.whatsapp.chat, chat.clients.twilio); those operators follow the     *)
(* written specification and say so in their comment.                      *)
(***************************************************************************)
EXTENDS Integers, Sequences, FiniteSets, TLC

(***************************************************************************)
(* Bounds of the model.                                                    *)
(***************************************************************************)
\* Turns (inbound webhook requests) handled in one behaviour.
MaxTurns == 2
\* The longest completion the Completion Service returns spans
\* MaxChunks full chunks plus one character.
MaxChunks == 2

(***************************************************************************)
(* Program constants.                                                      *)
(***************************************************************************)
\* if len(reply) > 1600
ChannelLimit == 1600
\* range(0, len(reply), 1500) and reply[i:i+1500]
ChunkStep == 1500

(***************************************************************************)
(* Fixed texts of the program, as code points.                             *)
(***************************************************************************)
\* "Sorry, I didn't understand that. Please try again."
Apology ==
    <<83, 111, 114, 114, 121, 44, 32, 73, 32, 100, 105, 100, 110, 39, 116, 32,
      117, 110, 100, 101, 114, 115, 116, 97, 110, 100, 32, 116, 104, 97, 116,
      46, 32, 80, 108, 101, 97, 115, 101, 32, 116, 114, 121, 32, 97, 103, 97,
      105, 110, 46>>
\* "Sorry, I couldn't generate the image. Please try again."
ImageApology ==
    <<83, 111, 114, 114, 121, 44, 32, 73, 32, 99, 111, 117, 108, 100, 110, 39,
      116, 32, 103, 101, 110, 101, 114, 97, 116, 101, 32, 116, 104, 101, 32,
      105, 109, 97, 103, 101, 46, 32, 80, 108, 101, 97, 115, 101, 32, 116,
      114, 121, 32, 97, 103, 97, 105, 110, 46>>
\* chat_options["goodbye_message"]: "Goodbye! I'll be here if you need me."
GoodbyeTemplate ==
    <<71, 111, 111, 100, 98, 121, 101, 33, 32, 73, 39, 108, 108, 32, 98, 101,
      32, 104, 101, 114, 101, 32, 105, 102, 32, 121, 111, 117, 32, 110, 101,
      101, 100, 32, 109, 101, 46>>
\* "..."
Ellipsis == <<46, 46, 46>>
\* f"Generated image: {img_prompt}" without the prompt
CaptionPrefix ==
    <<71, 101, 110, 101, 114, 97, 116, 101, 100, 32, 105, 109, 97, 103, 101,
      58, 32>>
\* '[img:"' and '"]', the two ends of the directive marker
MarkerOpen == <<91, 105, 109, 103, 58, 34>>
MarkerClose == <<34, 93>>
\* "{user}" and "{today}", the replacement fields of str.format
UserField == <<123, 117, 115, 101, 114, 125>>
TodayField == <<123, 116, 111, 100, 97, 121, 125>>

(***************************************************************************)
(* Inputs of the model: what the environment may hand to the program.      *)
(***************************************************************************)
\* CHAT_START_TEMPLATE when it is set: "Hi {user} on {today}"
StartTemplate ==
    <<72, 105, 32, 123, 117, 115, 101, 114, 125, 32, 111, 110, 32, 123, 116,
      111, 100, 97, 121, 125>>
\* The template is unset (None, falsy) or set.
Templates == {<< >>, StartTemplate}
\* The system prompt a conversation is seeded with when no template is set.
DefaultSystem == <<97, 115, 115, 105, 115, 116, 97, 110, 116>>
\* The one channel address: "+1"
Phone == <<43, 49>>
Phones == {Phone}
\* Profile names: "Al", "Bo"
Al == <<65, 108>>
Bo == <<66, 111>>
Names == {Al, Bo}
\* Inbound texts: "hi", "bye" and "  "; a failed transcription gives "".
Hi == <<104, 105>>
Bye == <<98, 121, 101>>
Blank == <<32, 32>>
InboundTexts == {Hi, Bye, Blank}
\* datetime.now().strftime("%Y-%m-%d") on the days of the run:
\* "2024-01-01", "2024-01-02"
Dates ==
    << <<50, 48, 50, 52, 45, 48, 49, 45, 48, 49>>,
       <<50, 48, 50, 52, 45, 48, 49, 45, 48, 50>> >>
\* The prompt of an image directive ("cat") and the URL of a generated image.
Prompt == <<99, 97, 116>>
ImageUrl == <<104, 116, 116, 112, 58, 47, 47, 105>>
\* Languages the detection may answer.
Languages == {"spanish"}

\* The body of a completion of length n: n distinct non-blank characters.
Body(n) == [k \in 1..n |-> 255 + k]
\* '[img:"<prompt>"]'
Marker(prompt) == MarkerOpen \o prompt \o MarkerClose
\* The completions of a conversation over several turns, as <<length of the
\* body, whether a directive follows it>>: a short one with a directive and
\* one that has to be split.
ShortLens == {<<1, TRUE>>, <<ChannelLimit + 1, FALSE>>}
\* Lengths around every boundary of the relay step, and directives after a
\* short and after the longest body.
RelayLens ==
    ( ( {0, 1, ChunkStep - 1, ChunkStep, ChunkStep + 1, ChannelLimit,
         ChannelLimit + 1}
        \cup {k * ChunkStep + d : k \in 2..MaxChunks, d \in {0, 1}} )
      \X {FALSE} )
    \cup {<<1, TRUE>>, <<MaxChunks * ChunkStep + 1, TRUE>>}
\* What the Completion Service may return: the body padded with a blank and a
\* newline, with or without a directive after it.
Completions(kinds) ==
    {<<32>> \o Body(k[1]) \o (IF k[2] THEN <<32>> \o Marker(Prompt) ELSE << >>)
        \o <<10>> : k \in kinds}

(***************************************************************************)
(* Text operations.                                                        *)
(***************************************************************************)
Min(a, b) == IF a < b THEN a ELSE b

IsSpace(c) == c \in {9, 10, 11, 12, 13, 32}

RECURSIVE LStrip(_)
LStrip(s) == IF s # << >> /\ IsSpace(Head(s)) THEN LStrip(Tail(s)) ELSE s

RECURSIVE RStrip(_)
RStrip(s) ==
    IF s # << >> /\ IsSpace(s[Len(s)]) THEN RStrip(SubSeq(s, 1, Len(s) - 1)) ELSE s

\* str.strip()
Strip(s) == RStrip(LStrip(s))

\* Whether pat occurs in s at position k (1-based).
MatchAt(s, pat, k) ==
    /\ k + Len(pat) - 1 <= Len(s)
    /\ \A j \in 1..Len(pat) : s[k + j - 1] = pat[j]

\* The first position >= from where pat occurs in s, or 0.
Find(s, pat, from) ==
    LET hits == {k \in from..Len(s) : MatchAt(s, pat, k)}
    IN  IF hits = {} THEN 0 ELSE CHOOSE k \in hits : \A j \in hits : k <= j

\* str.format(user=..., today=...) on a template whose only replacement
\* fields are {user} and {today}.
RECURSIVE Format(_, _, _)
Format(template, user, today) ==
    IF template = << >> THEN << >>
    ELSE IF MatchAt(template, UserField, 1)
    THEN user \o Format(SubSeq(template, Len(UserField) + 1, Len(template)), user, today)
    ELSE IF MatchAt(template, TodayField, 1)
    THEN today \o Format(SubSeq(template, Len(TodayField) + 1, Len(template)), user, today)
    ELSE <<Head(template)>> \o Format(Tail(template), user, today)

\* reply[i:i+1500] for a 0-based i
Slice(reply, i) == SubSeq(reply, i + 1, Min(i + ChunkStep, Len(reply)))

\* The chunk the loop sends at index i: the slice, and "..." unless it is the last.
Chunk(reply, i) ==
    IF i + ChunkStep < Len(reply) THEN Slice(reply, i) \o Ellipsis ELSE Slice(reply, i)

\* A relay that splits only what two chunks cannot hold.
NeedsSplitLate(reply) == Len(reply) > ChunkStep + ChunkStep

\* A relay that splits whatever is longer than one chunk.
NeedsSplitAtStep(reply) == Len(reply) > ChunkStep

\* if len(reply) > 1600
NeedsSplit(reply) == Len(reply) > ChannelLimit

\* A language check that passes on every turn.
NeedsLanguageAlways(messages) == Len(messages) >= 1

\* if len(chat.messages) == 1
NeedsLanguage(messages) == Len(messages) = 1


(***************************************************************************)
(* Collaborators outside the sources at hand, after the specification.     *)
(***************************************************************************)
\* chat.make_message(content, role)
MakeMessage(content, role) == [role |-> role, content |-> content]

\* chat.add_message(content, role): append to the transcript.
AddMessage(chat, content, role) ==
    [chat EXCEPT !.messages = Append(@, MakeMessage(content, role))]

\* A conversation as OpenAIChatManager constructs it: one system message,
\* rendered from the start template with the sender's name and the date.
NewChat(sender, template, date) ==
    LET system == IF template # << >>
                  THEN Format(template, sender.name, date)
                  ELSE DefaultSystem
    IN  [sender |-> sender,
         messages |-> <<MakeMessage(system, "system")>>,
         start_system_message |-> system,
         goodbye_message |-> GoodbyeTemplate,
         language |-> "unset"]

\* OpenAIChatManager.get_or_create(sender, **chat_options): the registry after
\* the call; an existing conversation is returned as it is.
GetOrCreate(registry, sender, template, date) ==
    IF sender.phone_number \in DOMAIN registry
    THEN registry
    ELSE [p \in DOMAIN registry \cup {sender.phone_number} |->
            IF p = sender.phone_number
            THEN NewChat(sender, template, date)
            ELSE registry[p]]

\* Whether a transcript holds a message of the given role.
HasRole(messages, role) == \E k \in 1..Len(messages) : messages[k].role = role

\* chat.save(): the persisted transcripts after the call.
Save(persisted, chat) ==
    [p \in DOMAIN persisted \cup {chat.sender.phone_number} |->
        IF p = chat.sender.phone_number THEN chat.messages ELSE persisted[p]]

\* check_conversation_end(msg, chat): the classifier of a conversation-ending
\* intent.
CheckConversationEnd(msg) == Strip(msg) = Bye

\* verify_image_generation(reply): the reply without its first directive
\* marker, trimmed, and the marker's prompt (empty when there is none).
VerifyImageGeneration(reply) ==
    LET a == Find(reply, MarkerOpen, 1)
        b == IF a = 0 THEN 0 ELSE Find(reply, MarkerClose, a + Len(MarkerOpen))
    IN  IF a = 0 \/ b = 0
        THEN [reply |-> reply, img_prompt |-> << >>]
        ELSE [reply |-> Strip(SubSeq(reply, 1, a - 1)
                              \o SubSeq(reply, b + Len(MarkerClose), Len(reply))),
              img_prompt |-> SubSeq(reply, a + Len(MarkerOpen), b - 1)]

\* ensure_user_language(chat, text): the detected language is applied to the
\* conversation's configuration; the transcript is left alone.
EnsureUserLanguage(chat, language) == [chat EXCEPT !.language = language]

\* chat_client.parse_request_values(request.values) and
\* verify_and_process_media(new_message, chat): the text of the message, for a
\* voice note its transcription, which is empty when the transcription fails.
VerifyAndProcessMedia(values, transcription) ==
    IF values.Media THEN transcription ELSE values.Body

\* TwilioWhatsAppClient.send_message(text, to, on_failure=...): the record of
\* one call.  A failed send is caught in the client, which emits on_failure
\* (when given) in place of the text.  on_failure is << >> when absent.
TwilioSendMessage(text, to, on_failure, ok, phase) ==
    [kind |-> "text", phase |-> phase, to |-> to, text |-> text, ok |-> ok,
     emitted |-> IF ok THEN <<text>>
                 ELSE IF on_failure # << >> THEN <<on_failure>> ELSE << >>]

\* check_and_send_image_generation(img_prompt, chat, client=chat_client): the
\* outbound call it makes: the generated image, or the image apology when the
\* generation failed.  No failure leaves the call.
CheckAndSendImageGeneration(chat, generated, ok) ==
    IF generated
    THEN [TwilioSendMessage(ImageUrl, chat.sender.phone_number, ImageApology, ok,
                            "directive") EXCEPT !.kind = "image"]
    ELSE TwilioSendMessage(ImageApology, chat.sender.phone_number, << >>, ok,
                           "directive")

(***************************************************************************)
(* The Cloud client.                                                       *)
(***************************************************************************)
\* WhatsAppCloudClient.send_message(to, text): the record of one call; when
\* the request fails the exception is raised again (ok = FALSE).
CloudSendMessage(to, text, ok, phase) ==
    [kind |-> "text", phase |-> phase, to |-> to, text |-> text, ok |-> ok,
     emitted |-> IF ok THEN <<text>> ELSE << >>]

\* WhatsAppCloudClient.send_image(to, image_url, caption)
CloudSendImage(to, image_url, caption, ok, phase) ==
    [kind |-> "image", phase |-> phase, to |-> to, text |-> image_url, ok |-> ok,
     emitted |-> IF ok THEN <<image_url>> ELSE << >>, caption |-> caption]

(***************************************************************************)
(* State.                                                                  *)
(***************************************************************************)
VARIABLES
    workers,         \* the request handlers the server lets run
    transport,       \* which application runs: "twilio" or "cloud"
    start_template,  \* chat_options["start_system_message"], << >> when unset
    lens,            \* the completions the Completion Service answers with
    budget,          \* inbound requests still to come
    today,           \* the current day, an index of Dates
    chats,           \* OpenAIChatManager's conversations by channel address
    store,           \* the transcripts chat.save() persisted
    detections,      \* calls of the language detection, by channel address
    frame            \* each request handler's locals and position

vars == <<workers, transport, start_template, lens, budget, today, chats, store,
          detections, frame>>

\* Request handlers: the server gives every request a thread of its own
\* (app.run, threaded by default), so the handling of two requests may overlap.
Reqs == {"r1", "r2"}

\* The handler of a server that takes one request at a time.
Single == {"r1"}

\* A handler that has not received a request.
IdleFrame ==
    [pc |-> "idle",
     sender |-> [phone_number |-> << >>, name |-> << >>],
     msg |-> << >>,
     reply |-> << >>,
     img_prompt |-> << >>,
     i |-> 0,
     out |-> << >>,        \* the outbound calls of the turn, in order
     trace |-> << >>,      \* the steps of the turn, in order
     resp |-> "none",      \* the HTTP answer: "ok", "error", "unhandled"
     len0 |-> 0,           \* transcript length as get_or_create returned it
     len1 |-> 0,           \* transcript length after the resolve step
     lenAtCheck |-> 0,     \* transcript length at the language check
     malformed |-> FALSE,  \* whether the webhook body was malformed
     inbound |-> FALSE,    \* whether the request carried a message to answer
     replied |-> FALSE,    \* whether the completion call returned a reply
     hadUser |-> FALSE,    \* whether the transcript held a user message at resolve
     userAt |-> 0,         \* where in the transcript the turn's user message went
     prompt |-> << >>]     \* the messages handed to the completion call

Config ==
    /\ transport \in {"twilio", "cloud"}
    /\ start_template \in Templates
    /\ today = 1
    /\ chats = << >>
    /\ store = << >>
    /\ detections = [p \in Phones |-> 0]
    /\ frame = [r \in Reqs |-> IdleFrame]

\* Conversations over several turns, one request at a time, with short
\* completions.
Init == Config /\ workers = Single /\ lens = ShortLens /\ budget = MaxTurns

\* One turn, with completions of every length around the relay's boundaries.
InitRelay == Config /\ workers = Single /\ lens = RelayLens /\ budget = 1

\* One request for every handler, handled as they come: a request may arrive
\* while another is being handled.
InitOverlap == Config /\ workers = Reqs /\ lens = ShortLens /\ budget = Cardinality(Reqs)

Free(r) == frame[r].pc \in {"idle", "done"}

\* Whether a call of the channel (a send, mark_as_read) succeeds, and whether
\* a call of the language detection or of the completion raises.  The failures
\* are followed for the server that takes one request at a time; where
\* requests overlap these calls succeed and every request is a plain text
\* message.
Oks == IF workers = Single THEN BOOLEAN ELSE {TRUE}
Raises == IF workers = Single THEN BOOLEAN ELSE {FALSE}

Step(r, f) == frame' = [frame EXCEPT ![r] = f]

\* The handler returns (resp) without touching anything else.
Return(r, f, resp) == Step(r, [f EXCEPT !.pc = "done", !.resp = resp])

Log(f, ev) == [f EXCEPT !.trace = Append(@, ev)]

Out(f, call) == [f EXCEPT !.out = Append(@, call), !.trace = Append(@, "send")]

\* The clock moves to the next day.  Only the resolve step reads the clock, so
\* a day that changes during a turn is the same as one that changes after it.
Tick ==
    /\ today < Len(Dates)
    /\ budget > 0
    /\ \A r \in Reqs : Free(r)
    /\ today' = today + 1
    /\ UNCHANGED <<workers, transport, start_template, lens, budget, chats, store,
                   detections, frame>>

(***************************************************************************)
(* reply_to_whatsapp_message (Twilio).                                     *)
(***************************************************************************)
\* request.values of the Twilio webhook: From, ProfileName (optional), Body,
\* and whether a voice note is attached.
TwilioRequests ==
    [From : Phones, ProfileName : Names, Body : InboundTexts, Media : {FALSE}]
    \cup [From : Phones, ProfileName : {<< >>}, Body : {<< >>}, Media : {TRUE}]

\* The text message "hi" from "Al".
TwilioPlainRequests == [From : Phones, ProfileName : {Al}, Body : {Hi}, Media : {FALSE}]

\* Resolve the conversation, overwrite the system message, parse the request
\* and transcribe its media.
TwilioReceive(r, values, transcription) ==
    /\ transport = "twilio"
    /\ r \in workers
    /\ Free(r)
    /\ budget > 0
    /\ LET sender == [phone_number |-> values.From,
                      name |-> IF values.ProfileName # << >>
                               THEN values.ProfileName ELSE values.From]
           registry == GetOrCreate(chats, sender, start_template, Dates[today])
           chat == registry[sender.phone_number]
           system == Format(start_template, sender.name, Dates[today])
           resolved == IF start_template # << >>
                       THEN [chat EXCEPT !.start_system_message = system,
                                         !.messages[1] = MakeMessage(system, "system")]
                       ELSE chat
           msg == VerifyAndProcessMedia(values, transcription)
       IN  /\ chats' = [registry EXCEPT ![sender.phone_number] = resolved]
           /\ Step(r, [IdleFrame EXCEPT !.pc = "check",
                                        !.inbound = TRUE,
                                        !.hadUser = HasRole(chat.messages, "user"),
                                        !.sender = sender,
                                        !.msg = msg,
                                        !.trace = <<"get_or_create">>,
                                        !.len0 = Len(chat.messages),
                                        !.len1 = Len(resolved.messages)])
    /\ budget' = budget - 1
    /\ UNCHANGED <<workers, transport, start_template, lens, today, store, detections>>

\* message_empty_or_goodbye(msg, chat), and the language check that follows.
TwilioEmptyOrGoodbye(r, ok) ==
    LET f == frame[r]
        chat == chats[f.sender.phone_number]
    IN  /\ transport = "twilio"
        /\ f.pc = "check"
        /\ IF Strip(f.msg) = << >>
           THEN Return(r, Out(f, TwilioSendMessage(Apology, chat.sender.phone_number,
                                                   << >>, ok, "notice")), "ok")
           ELSE IF CheckConversationEnd(f.msg)
           THEN Return(r, Out(f, TwilioSendMessage(
                                    Format(chat.goodbye_message, chat.sender.name, << >>),
                                    chat.sender.phone_number, << >>, ok, "notice")), "ok")
           ELSE /\ ok
                /\ Step(r, [f EXCEPT !.pc = IF NeedsLanguage(chat.messages)
                                            THEN "lang" ELSE "append",
                                     !.lenAtCheck = Len(chat.messages)])
        /\ UNCHANGED <<workers, transport, start_template, lens, budget, today, chats,
                       store, detections>>

\* await ensure_user_language(chat, text=msg); a failure of the detection
\* leaves the handler, which has no handler for it.
TwilioEnsureUserLanguage(r, raised, language) ==
    LET f == frame[r]
        p == f.sender.phone_number
    IN  /\ transport = "twilio"
        /\ f.pc = "lang"
        /\ detections' = [detections EXCEPT ![p] = @ + 1]
        /\ IF raised
           THEN /\ Return(r, Log(f, "detect"), "unhandled")
                /\ UNCHANGED chats
           ELSE /\ chats' = [chats EXCEPT ![p] = EnsureUserLanguage(@, language)]
                /\ Step(r, [Log(f, "detect") EXCEPT !.pc = "append"])
        /\ UNCHANGED <<workers, transport, start_template, lens, budget, today, store>>

\* chat.add_message(msg, role="user")
TwilioAddUserMessage(r) ==
    LET f == frame[r]
        p == f.sender.phone_number
    IN  /\ transport = "twilio"
        /\ f.pc = "append"
        /\ chats' = [chats EXCEPT ![p] = AddMessage(@, f.msg, "user")]
        /\ Step(r, [Log(f, "append_user") EXCEPT !.pc = "complete",
                                                 !.userAt = Len(chats[p].messages) + 1])
        /\ UNCHANGED <<workers, transport, start_template, lens, budget, today, store,
                       detections>>

\* chatgpt_completion(chat.messages, **model_options).strip() and
\* verify_image_generation(reply); the completion raises or answers raw.
TwilioCompletion(r, raised, raw) ==
    LET f == frame[r]
        v == VerifyImageGeneration(Strip(raw))
    IN  /\ transport = "twilio"
        /\ f.pc = "complete"
        /\ IF raised
           THEN Return(r, Log(f, "completion"), "unhandled")
           ELSE Step(r, [Log(f, "completion") EXCEPT
                            !.replied = TRUE,
                            !.prompt = chats[f.sender.phone_number].messages,
                            !.reply = v.reply,
                            !.img_prompt = v.img_prompt,
                            !.i = 0,
                            !.pc = IF NeedsSplit(v.reply) THEN "chunks" ELSE "whole"])
        /\ UNCHANGED <<workers, transport, start_template, lens, budget, today, chats,
                       store, detections>>

\* One iteration of the loop over range(0, len(reply), 1500).
TwilioSendChunk(r, ok) ==
    LET f == frame[r]
        chat == chats[f.sender.phone_number]
        sent == Out(f, TwilioSendMessage(Chunk(f.reply, f.i), chat.sender.phone_number,
                                         Apology, ok, "relay"))
    IN  /\ transport = "twilio"
        /\ f.pc = "chunks"
        /\ f.i < Len(f.reply)
        /\ Step(r, [sent EXCEPT !.i = f.i + ChunkStep,
                                !.pc = IF f.i + ChunkStep < Len(f.reply)
                                       THEN "chunks" ELSE "assistant"])
        /\ UNCHANGED <<workers, transport, start_template, lens, budget, today, chats,
                       store, detections>>

\* The reply fits one message.
TwilioSendReply(r, ok) ==
    LET f == frame[r]
        chat == chats[f.sender.phone_number]
        sent == Out(f, TwilioSendMessage(f.reply, chat.sender.phone_number,
                                         Apology, ok, "relay"))
    IN  /\ transport = "twilio"
        /\ f.pc = "whole"
        /\ Step(r, [sent EXCEPT !.pc = "assistant"])
        /\ UNCHANGED <<workers, transport, start_template, lens, budget, today, chats,
                       store, detections>>

\* chat.add_message(reply, role="assistant")
TwilioAddAssistantMessage(r) ==
    LET f == frame[r]
        p == f.sender.phone_number
    IN  /\ transport = "twilio"
        /\ f.pc = "assistant"
        /\ chats' = [chats EXCEPT ![p] = AddMessage(@, f.reply, "assistant")]
        /\ Step(r, [Log(f, "append_assistant") EXCEPT
                        !.pc = IF f.img_prompt # << >> THEN "audit" ELSE "save"])
        /\ UNCHANGED <<workers, transport, start_template, lens, budget, today, store,
                       detections>>

\* chat.add_message(f"[img:\"{img_prompt}\"]", role="system")
TwilioAddDirectiveMessage(r) ==
    LET f == frame[r]
        p == f.sender.phone_number
    IN  /\ transport = "twilio"
        /\ f.pc = "audit"
        /\ chats' = [chats EXCEPT ![p] = AddMessage(@, Marker(f.img_prompt), "system")]
        /\ Step(r, [Log(f, "append_system") EXCEPT !.pc = "image"])
        /\ UNCHANGED <<workers, transport, start_template, lens, budget, today, store,
                       detections>>

\* await check_and_send_image_generation(img_prompt, chat, client=chat_client)
TwilioImageGeneration(r, generated, ok) ==
    LET f == frame[r]
        chat == chats[f.sender.phone_number]
        g == Log(f, "image_generation")
    IN  /\ transport = "twilio"
        /\ f.pc = "image"
        /\ Step(r, [Out(g, CheckAndSendImageGeneration(chat, generated, ok))
                        EXCEPT !.pc = "save"])
        /\ UNCHANGED <<workers, transport, start_template, lens, budget, today, chats,
                       store, detections>>

\* chat.save() and return jsonify({"status": "ok"})
TwilioSave(r) ==
    LET f == frame[r]
        chat == chats[f.sender.phone_number]
    IN  /\ transport = "twilio"
        /\ f.pc = "save"
        /\ store' = Save(store, chat)
        /\ Return(r, Log(f, "save"), "ok")
        /\ UNCHANGED <<workers, transport, start_template, lens, budget, today, chats,
                       detections>>

Twilio(r) ==
    \/ \E values \in IF workers = Single THEN TwilioRequests ELSE TwilioPlainRequests,
          transcription \in {<< >>} :
          TwilioReceive(r, values, transcription)
    \/ \E ok \in Oks : TwilioEmptyOrGoodbye(r, ok)
    \/ \E raised \in Raises, language \in Languages :
          TwilioEnsureUserLanguage(r, raised, language)
    \/ TwilioAddUserMessage(r)
    \/ \E raised \in Raises, raw \in Completions(lens) : TwilioCompletion(r, raised, raw)
    \/ \E ok \in Oks : TwilioSendChunk(r, ok)
    \/ \E ok \in Oks : TwilioSendReply(r, ok)
    \/ TwilioAddAssistantMessage(r)
    \/ TwilioAddDirectiveMessage(r)
    \/ \E generated \in BOOLEAN, ok \in BOOLEAN : TwilioImageGeneration(r, generated, ok)
    \/ TwilioSave(r)

(***************************************************************************)
(* JSON values and the Python operations parse_whatsapp_message applies.   *)
(***************************************************************************)
JNull == [t |-> "null"]
JStr(s) == [t |-> "str", str |-> s]
JArr(items) == [t |-> "arr", items |-> items]
JObj(fields) == [t |-> "obj", fields |-> fields]

\* The outcome of a Python expression: its value, or the exception it raises.
Ok(v) == [exc |-> "", val |-> v]
Raise(e) == [exc |-> e, val |-> JNull]

\* v[key] for a string key
GetItem(v, key) ==
    IF v.t = "obj"
    THEN IF key \in DOMAIN v.fields THEN Ok(v.fields[key]) ELSE Raise("KeyError")
    ELSE Raise("TypeError")

\* v[0]
GetFirst(v) ==
    CASE v.t = "arr" -> IF Len(v.items) > 0 THEN Ok(v.items[1]) ELSE Raise("IndexError")
      [] v.t = "str" -> IF Len(v.str) > 0 THEN Ok(JStr(<<v.str[1]>>)) ELSE Raise("IndexError")
      [] v.t = "obj" -> Raise("KeyError")
      [] OTHER -> Raise("TypeError")

\* v[key][0]
GetItemFirst(v, key) ==
    LET x == GetItem(v, key) IN IF x.exc # "" THEN x ELSE GetFirst(x.val)

\* key in v, for a string key
Contains(v, key) ==
    CASE v.t = "obj" -> Ok(key \in DOMAIN v.fields)
      [] v.t = "arr" -> Ok(FALSE)
      [] OTHER -> Raise("TypeError")

\* The first exception a sequence of outcomes raises, "" when none does.
FirstRaised(outcomes) ==
    LET bad == {k \in 1..Len(outcomes) : outcomes[k].exc # ""}
    IN  IF bad = {} THEN "" ELSE outcomes[CHOOSE k \in bad : \A j \in bad : k <= j].exc

\* The value of a JSON string, << >> for anything else.
TextOf(v) == IF v.t = "str" THEN v.str ELSE << >>

\* "text", "image": message types
TextType == <<116, 101, 120, 116>>
ImageType == <<105, 109, 97, 103, 101>>

\* message.get("text", {}).get("body", "") if message["type"] == "text"
MessageText(message, type) ==
    IF type.exc # "" THEN Raise(type.exc)
    ELSE IF TextOf(type.val) # TextType THEN Ok(JStr(<< >>))
    ELSE IF message.t # "obj" THEN Raise("AttributeError")
    ELSE IF "text" \notin DOMAIN message.fields THEN Ok(JStr(<< >>))
    ELSE IF message.fields["text"].t # "obj" THEN Raise("AttributeError")
    ELSE IF "body" \notin DOMAIN message.fields["text"].fields THEN Ok(JStr(<< >>))
    ELSE Ok(message.fields["text"].fields["body"])

\* parse_whatsapp_message(webhook_data): exc is the exception that leaves the
\* function ("" when none), found whether a message record is returned (None
\* otherwise), and the record's fields.
NoMessage(exc) ==
    [exc |-> exc, found |-> FALSE, from |-> << >>, name |-> << >>,
     type |-> << >>, text |-> << >>]

ParseFields(value) ==
    LET message == GetItemFirst(value, "messages")
        contact == IF message.exc # "" THEN Raise(message.exc)
                   ELSE GetItemFirst(value, "contacts")
    IN  IF contact.exc # "" THEN <<contact>>
        ELSE LET from == GetItem(message.val, "from")
                 profile == GetItem(contact.val, "profile")
                 name == IF profile.exc # "" THEN profile
                         ELSE GetItem(profile.val, "name")
                 id == GetItem(message.val, "id")
                 timestamp == GetItem(message.val, "timestamp")
                 type == GetItem(message.val, "type")
                 text == MessageText(message.val, type)
             IN  <<from, name, id, timestamp, type, text>>

ParseWhatsappMessage(webhook_data) ==
    LET entry == GetItemFirst(webhook_data, "entry")
        changes == IF entry.exc # "" THEN entry ELSE GetItemFirst(entry.val, "changes")
        value == IF changes.exc # "" THEN changes ELSE GetItem(changes.val, "value")
        has == IF value.exc # "" THEN Raise(value.exc) ELSE Contains(value.val, "messages")
        fields == ParseFields(value.val)
        raised == IF has.exc # "" THEN has.exc
                  ELSE IF has.val THEN FirstRaised(fields) ELSE ""
    IN  IF raised \in {"KeyError", "IndexError"} THEN NoMessage("")
        ELSE IF raised # "" THEN NoMessage(raised)
        ELSE IF ~has.val THEN NoMessage("")
        ELSE [exc |-> "", found |-> TRUE,
              from |-> TextOf(fields[1].val), name |-> TextOf(fields[2].val),
              type |-> TextOf(fields[5].val), text |-> TextOf(fields[6].val)]

(***************************************************************************)
(* Webhook bodies the Cloud application may receive.                       *)
(***************************************************************************)
Message(type, fields) ==
    JObj([from |-> JStr(Phone), id |-> JStr(<<49>>), timestamp |-> JStr(<<50>>),
          type |-> JStr(type)] @@ fields)

Contact(name) == JObj([profile |-> JObj([name |-> JStr(name)])])

Envelope(value) == JObj([entry |-> JArr(<<JObj([changes |-> JArr(<<JObj(value)>>)])>>)])

TextBody(name, text) ==
    Envelope([value |-> JObj([messages |-> JArr(<<Message(TextType,
                                 [text |-> JObj([body |-> JStr(text)])])>>),
                              contacts |-> JArr(<<Contact(name)>>)])])

\* Well-formed bodies: text messages, a text message without a body, an image
\* message and a status update.
WellFormedBodies ==
    <<TextBody(Al, Hi), TextBody(Bo, Hi), TextBody(Al, Bye), TextBody(Al, Blank),
      Envelope([value |-> JObj([messages |-> JArr(<<Message(TextType, << >>)>>),
                                contacts |-> JArr(<<Contact(Al)>>)])]),
      Envelope([value |-> JObj([messages |-> JArr(<<Message(ImageType, << >>)>>),
                                contacts |-> JArr(<<Contact(Al)>>)])]),
      Envelope([value |-> JObj([statuses |-> JArr(<< >>)])])>>

\* Malformed bodies: not a JSON object, or an envelope without its fields or
\* with empty lists.
MalformedBodies ==
    <<JNull,
      JArr(<< >>),
      JStr(Hi),
      JObj(<< >>),
      JObj([entry |-> JArr(<< >>)]),
      JObj([entry |-> JArr(<<JObj(<< >>)>>)]),
      JObj([entry |-> JArr(<<JObj([changes |-> JArr(<< >>)])>>)]),
      Envelope(<< >>),
      Envelope([value |-> JNull]),
      Envelope([value |-> JObj([messages |-> JArr(<< >>)])]),
      Envelope([value |-> JObj([messages |-> JArr(<<Message(TextType, << >>)>>)])]),
      Envelope([value |-> JObj([messages |-> JArr(<<Message(TextType, << >>)>>),
                                contacts |-> JArr(<< >>)])])>>

\* A webhook request: whether request.get_json() can parse the body (an
\* absent or unparseable body raises), the parsed JSON, and whether the body is
\* malformed.
CloudRequests ==
    {[json |-> TRUE, data |-> WellFormedBodies[k], malformed |-> FALSE] :
        k \in 1..Len(WellFormedBodies)}
    \cup {[json |-> TRUE, data |-> MalformedBodies[k], malformed |-> TRUE] :
        k \in 1..Len(MalformedBodies)}
    \cup {[json |-> FALSE, data |-> JNull, malformed |-> TRUE]}

\* The text message "hi" from "Al".
CloudPlainRequests == {[json |-> TRUE, data |-> TextBody(Al, Hi), malformed |-> FALSE]}

(***************************************************************************)
(* process_webhook (Cloud API).                                            *)
(***************************************************************************)
\* A handler that acknowledges whatever fails.
CloudSwallow(r, f) == Return(r, f, "ok")

\* except Exception: return jsonify({"status": "error"}), 500
CloudError(r, f) == Return(r, f, "error")

\* request.get_json(), parse_whatsapp_message(data) and the two early returns.
CloudReceive(r, request) ==
    /\ transport = "cloud"
    /\ r \in workers
    /\ Free(r)
    /\ budget > 0
    /\ budget' = budget - 1
    /\ LET message_data == ParseWhatsappMessage(request.data)
           f == [IdleFrame EXCEPT !.malformed = request.malformed]
       IN  IF ~request.json \/ message_data.exc # ""
           THEN CloudError(r, f)
           ELSE IF ~message_data.found
           THEN Return(r, f, "ok")
           ELSE IF message_data.type # TextType
           THEN Return(r, f, "ok")
           ELSE Step(r, [f EXCEPT !.pc = "read",
                                  !.inbound = TRUE,
                                  !.sender = [phone_number |-> message_data.from,
                                              name |-> message_data.name],
                                  !.msg = message_data.text])
    /\ UNCHANGED <<workers, transport, start_template, lens, today, chats, store, detections>>

\* whatsapp_client.mark_as_read(message_data["message_id"]); a failed request
\* is raised again.
CloudMarkAsRead(r, ok) ==
    LET f == frame[r]
    IN  /\ transport = "cloud"
        /\ f.pc = "read"
        /\ IF ok
           THEN Step(r, [Log(f, "mark_as_read") EXCEPT !.pc = "resolve"])
           ELSE CloudError(r, Log(f, "mark_as_read"))
        /\ UNCHANGED <<workers, transport, start_template, lens, budget, today, chats,
                       store, detections>>

\* get_or_create, the system message, and the language check that follows.
CloudResolve(r) ==
    LET f == frame[r]
        sender == f.sender
        registry == GetOrCreate(chats, sender, start_template, Dates[today])
        chat == registry[sender.phone_number]
        system == Format(start_template, sender.name, Dates[today])
        insert == Len(chat.messages) = 0 \/ chat.messages[1].role # "system"
        resolved == IF start_template # << >>
                    THEN [chat EXCEPT
                            !.start_system_message = system,
                            !.messages = IF insert
                                         THEN <<MakeMessage(system, "system")>> \o @
                                         ELSE @]
                    ELSE chat
    IN  /\ transport = "cloud"
        /\ f.pc = "resolve"
        /\ chats' = [registry EXCEPT ![sender.phone_number] = resolved]
        /\ Step(r, [Log(f, "get_or_create") EXCEPT
                        !.pc = IF NeedsLanguage(resolved.messages)
                               THEN "lang" ELSE "append",
                        !.hadUser = HasRole(chat.messages, "user"),
                        !.len0 = Len(chat.messages),
                        !.len1 = Len(resolved.messages),
                        !.lenAtCheck = Len(resolved.messages)])
        /\ UNCHANGED <<workers, transport, start_template, lens, budget, today, store,
                       detections>>

\* await ensure_user_language(chat, text=message_data["text"]); a failure of
\* the detection ends in the handler's except clause.
CloudEnsureUserLanguage(r, raised, language) ==
    LET f == frame[r]
        p == f.sender.phone_number
    IN  /\ transport = "cloud"
        /\ f.pc = "lang"
        /\ detections' = [detections EXCEPT ![p] = @ + 1]
        /\ IF raised
           THEN /\ CloudError(r, Log(f, "detect"))
                /\ UNCHANGED chats
           ELSE /\ chats' = [chats EXCEPT ![p] = EnsureUserLanguage(@, language)]
                /\ Step(r, [Log(f, "detect") EXCEPT !.pc = "append"])
        /\ UNCHANGED <<workers, transport, start_template, lens, budget, today, store>>

\* chat.add_message(message_data["text"], role="user")
CloudAddUserMessage(r) ==
    LET f == frame[r]
        p == f.sender.phone_number
    IN  /\ transport = "cloud"
        /\ f.pc = "append"
        /\ chats' = [chats EXCEPT ![p] = AddMessage(@, f.msg, "user")]
        /\ Step(r, [Log(f, "append_user") EXCEPT !.pc = "complete",
                                                 !.userAt = Len(chats[p].messages) + 1])
        /\ UNCHANGED <<workers, transport, start_template, lens, budget, today, store,
                       detections>>

\* chatgpt_completion(chat.messages, **model_options).strip() and
\* verify_image_generation(reply)
CloudCompletion(r, raised, raw) ==
    LET f == frame[r]
        v == VerifyImageGeneration(Strip(raw))
    IN  /\ transport = "cloud"
        /\ f.pc = "complete"
        /\ IF raised
           THEN CloudError(r, Log(f, "completion"))
           ELSE Step(r, [Log(f, "completion") EXCEPT
                            !.replied = TRUE,
                            !.prompt = chats[f.sender.phone_number].messages,
                            !.reply = v.reply,
                            !.img_prompt = v.img_prompt,
                            !.i = 0,
                            !.pc = IF NeedsSplit(v.reply) THEN "chunks" ELSE "whole"])
        /\ UNCHANGED <<workers, transport, start_template, lens, budget, today, chats,
                       store, detections>>

\* One iteration of the loop over range(0, len(reply), 1500); a failed send
\* leaves the loop and the handler.
CloudSendChunk(r, ok) ==
    LET f == frame[r]
        sent == Out(f, CloudSendMessage(f.sender.phone_number, Chunk(f.reply, f.i),
                                        ok, "relay"))
    IN  /\ transport = "cloud"
        /\ f.pc = "chunks"
        /\ f.i < Len(f.reply)
        /\ IF ok
           THEN Step(r, [sent EXCEPT !.i = f.i + ChunkStep,
                                     !.pc = IF f.i + ChunkStep < Len(f.reply)
                                            THEN "chunks" ELSE "assistant"])
           ELSE CloudError(r, sent)
        /\ UNCHANGED <<workers, transport, start_template, lens, budget, today, chats,
                       store, detections>>

\* The reply fits one message.
CloudSendReply(r, ok) ==
    LET f == frame[r]
        sent == Out(f, CloudSendMessage(f.sender.phone_number, f.reply, ok, "relay"))
    IN  /\ transport = "cloud"
        /\ f.pc = "whole"
        /\ IF ok
           THEN Step(r, [sent EXCEPT !.pc = "assistant"])
           ELSE CloudError(r, sent)
        /\ UNCHANGED <<workers, transport, start_template, lens, budget, today, chats,
                       store, detections>>

\* chat.add_message(reply, role="assistant"), and return ok when no image is
\* asked for.
CloudAddAssistantMessage(r) ==
    LET f == frame[r]
        p == f.sender.phone_number
        g == Log(f, "append_assistant")
    IN  /\ transport = "cloud"
        /\ f.pc = "assistant"
        /\ chats' = [chats EXCEPT ![p] = AddMessage(@, f.reply, "assistant")]
        /\ IF f.img_prompt # << >>
           THEN Step(r, [g EXCEPT !.pc = "image"])
           ELSE Return(r, g, "ok")
        /\ UNCHANGED <<workers, transport, start_template, lens, budget, today, store,
                       detections>>

\* await check_and_send_image_generation(img_prompt, chat, whatsapp_client,
\* message_data["from"]): an image URL, None, or an exception.
CloudImageGeneration(r, outcome) ==
    LET f == frame[r]
        g == Log(f, "image_generation")
    IN  /\ transport = "cloud"
        /\ f.pc = "image"
        /\ CASE outcome = "url" -> Step(r, [g EXCEPT !.pc = "send_image"])
             [] outcome = "none" -> Return(r, g, "ok")
             [] OTHER -> Step(r, [g EXCEPT !.pc = "image_apology"])
        /\ UNCHANGED <<workers, transport, start_template, lens, budget, today, chats,
                       store, detections>>

\* whatsapp_client.send_image(...) inside the try block
CloudSendGeneratedImage(r, ok) ==
    LET f == frame[r]
        sent == Out(f, CloudSendImage(f.sender.phone_number, ImageUrl,
                                      CaptionPrefix \o f.img_prompt, ok, "directive"))
    IN  /\ transport = "cloud"
        /\ f.pc = "send_image"
        /\ IF ok
           THEN Return(r, sent, "ok")
           ELSE Step(r, [sent EXCEPT !.pc = "image_apology"])
        /\ UNCHANGED <<workers, transport, start_template, lens, budget, today, chats,
                       store, detections>>

\* except Exception: whatsapp_client.send_message(text="Sorry, I couldn't ...")
CloudSendImageApology(r, ok) ==
    LET f == frame[r]
        sent == Out(f, CloudSendMessage(f.sender.phone_number, ImageApology, ok,
                                        "directive"))
    IN  /\ transport = "cloud"
        /\ f.pc = "image_apology"
        /\ IF ok
           THEN Return(r, sent, "ok")
           ELSE CloudError(r, sent)
        /\ UNCHANGED <<workers, transport, start_template, lens, budget, today, chats,
                       store, detections>>

Cloud(r) ==
    \/ \E request \in IF workers = Single THEN CloudRequests ELSE CloudPlainRequests :
          CloudReceive(r, request)
    \/ \E ok \in Oks : CloudMarkAsRead(r, ok)
    \/ CloudResolve(r)
    \/ \E raised \in Raises, language \in Languages :
          CloudEnsureUserLanguage(r, raised, language)
    \/ CloudAddUserMessage(r)
    \/ \E raised \in Raises, raw \in Completions(lens) : CloudCompletion(r, raised, raw)
    \/ \E ok \in Oks : CloudSendChunk(r, ok)
    \/ \E ok \in Oks : CloudSendReply(r, ok)
    \/ CloudAddAssistantMessage(r)
    \/ \E outcome \in {"url", "none", "raise"} : CloudImageGeneration(r, outcome)
    \/ \E ok \in BOOLEAN : CloudSendGeneratedImage(r, ok)
    \/ \E ok \in BOOLEAN : CloudSendImageApology(r, ok)

Next == Tick \/ \E r \in Reqs : Twilio(r) \/ Cloud(r)

Spec == Init /\ [][Next]_vars

SpecRelay == InitRelay /\ [][Next]_vars

SpecOverlap == InitOverlap /\ [][Next]_vars

(***************************************************************************)
(* What the properties read from a turn.                                   *)
(***************************************************************************)
\* Whether the turn took the step.
Has(f, ev) == \E k \in 1..Len(f.trace) : f.trace[k] = ev

\* How often the turn took the step.
Count(f, ev) == Cardinality({k \in 1..Len(f.trace) : f.trace[k] = ev})

\* The position of the turn's first such step.
First(f, ev) ==
    CHOOSE k \in 1..Len(f.trace) :
        f.trace[k] = ev /\ \A j \in 1..(k - 1) : f.trace[j] # ev

\* The outbound calls of the reply-relay step.
IsRelay(call) == call.phase = "relay"
RelayCalls(f) == SelectSeq(f.out, IsRelay)

\* The transcript of the turn's conversation.
Transcript(f) == chats[f.sender.phone_number].messages

\* The position of the last message of the role in the transcript, 0 if none.
LastOf(messages, role) ==
    LET at == {k \in 1..Len(messages) : messages[k].role = role}
    IN  IF at = {} THEN 0 ELSE CHOOSE k \in at : \A j \in at : j <= k

Failed(f) == f.resp \in {"error", "unhandled"}

(***************************************************************************)
(* Claims.                                                                 *)
(***************************************************************************)

\* C1: in both handlers a turn whose normalized text is empty or blank calls
\* no completion and appends no user or assistant message, leaves the
\* transcript at the length it had, and, when it is answered ok, has made
\* exactly one outbound call, the fixed "didn't understand" apology.
C1_BlankInputOnlyApologises ==
    \A r \in Reqs :
        LET f == frame[r]
        IN  (f.inbound /\ Strip(f.msg) = << >>) =>
              /\ ~Has(f, "completion")
              /\ ~Has(f, "append_user")
              /\ ~Has(f, "append_assistant")
              /\ (Has(f, "get_or_create") => Len(Transcript(f)) = f.len0)
              /\ (f.pc = "done" /\ f.resp = "ok" =>
                    /\ Len(f.out) = 1
                    /\ f.out[1].kind = "text"
                    /\ f.out[1].text = Apology)

\* C2: in both handlers a turn whose text matches the conversation-ending
\* intent calls no completion and appends nothing to the transcript, and, when
\* it is answered ok, has made exactly one outbound call, the goodbye message
\* rendered with the sender's name.
C2_GoodbyeOnlySaysGoodbye ==
    \A r \in Reqs :
        LET f == frame[r]
        IN  (f.inbound /\ Strip(f.msg) # << >> /\ CheckConversationEnd(f.msg)) =>
              /\ ~Has(f, "completion")
              /\ ~Has(f, "append_user")
              /\ ~Has(f, "append_assistant")
              /\ (Has(f, "get_or_create") => Len(Transcript(f)) = f.len0)
              /\ (f.pc = "done" /\ f.resp = "ok" =>
                    /\ Len(f.out) = 1
                    /\ f.out[1].kind = "text"
                    /\ f.out[1].text = Format(GoodbyeTemplate, f.sender.name, << >>))

\* C3: in both handlers, when the send of one chunk of a multi-chunk reply
\* fails, the failure does not leave the handler, the failed chunk is replaced
\* by the fixed apology, and once the turn is over every chunk of the reply
\* has been handed to the channel in order and the assistant message in the
\* transcript is the full cleaned reply.
C3_FailedChunkIsReplaced ==
    \A r \in Reqs :
        LET f == frame[r]
            calls == RelayCalls(f)
            last == LastOf(Transcript(f), "assistant")
        IN  (f.replied /\ NeedsSplit(f.reply)
             /\ \E k \in 1..Len(calls) : ~calls[k].ok) =>
              /\ ~Failed(f)
              /\ \A k \in 1..Len(calls) :
                    /\ calls[k].text = Chunk(f.reply, (k - 1) * ChunkStep)
                    /\ calls[k].emitted = IF calls[k].ok THEN <<calls[k].text>>
                                          ELSE <<Apology>>
              /\ (f.pc = "done" =>
                    /\ Len(calls) * ChunkStep >= Len(f.reply)
                    /\ Has(f, "append_assistant")
                    /\ last > 0
                    /\ Transcript(f)[last].content = f.reply)

\* ceil(a / b)
Ceil(a, b) == (a + b - 1) \div b

\* The reply-relay step of the turn ran to its end.
Relayed(f) == f.replied /\ (f.pc = "assistant" \/ Has(f, "append_assistant"))

\* The reply-relay step of the turn is over: it ran to its end or was left.
RelayOver(f) == f.replied /\ f.pc \notin {"chunks", "whole"}

\* The send calls the relay makes for a reply of length n when none fails.
SendsFor(n) == IF n > ChannelLimit THEN Ceil(n, ChunkStep) ELSE 1

EndsWithEllipsis(text) ==
    Len(text) >= Len(Ellipsis) /\ MatchAt(text, Ellipsis, Len(text) - Len(Ellipsis) + 1)

\* The texts of the calls, each but the last without its last three characters,
\* joined.
RECURSIVE Rejoin(_)
Rejoin(calls) ==
    IF calls = << >> THEN << >>
    ELSE IF Len(calls) = 1 THEN calls[1].text
    ELSE SubSeq(calls[1].text, 1, Len(calls[1].text) - Len(Ellipsis))
         \o Rejoin(Tail(calls))

\* C5: once the reply-relay step is over, the texts it passed to the outbound
\* send calls carry "..." at the end of every text but the last and not at the
\* end of the last, and joined without those suffixes they are the cleaned
\* reply.
C5_ChunksRebuildReply ==
    \A r \in Reqs :
        LET f == frame[r]
            calls == RelayCalls(f)
        IN  RelayOver(f) =>
              /\ Len(calls) >= 1
              /\ \A k \in 1..Len(calls) :
                    EndsWithEllipsis(calls[k].text) <=> k < Len(calls)
              /\ Rejoin(calls) = f.reply

\* C6 as claimed: over the turns of a conversation the language detection is
\* invoked exactly once: never a second time, and once by the time a user
\* message is in the transcript.
C6_DetectedExactlyOnce ==
    \A p \in Phones :
        /\ detections[p] <= 1
        /\ (p \in DOMAIN chats /\ HasRole(chats[p].messages, "user") =>
               detections[p] = 1)

\* C6 as amended: a turn invokes the language detection exactly when the
\* transcript holds one message as the turn comes to append its user message;
\* it does so at most once, before the user message is appended, on every turn
\* that appends the conversation's first user message (and on each turn before
\* it that came to the check, so again after a turn whose detection failed),
\* and never on a turn that began with a user message in the transcript.
C6_DetectedUntilFirstUserMessage ==
    \A r \in Reqs :
        LET f == frame[r]
        IN  /\ Has(f, "detect") => f.lenAtCheck = 1
            /\ (f.lenAtCheck = 1 /\ f.pc # "lang" => Has(f, "detect"))
            /\ Count(f, "detect") <= 1
            /\ (Has(f, "detect") /\ Has(f, "append_user") =>
                  First(f, "detect") < First(f, "append_user"))
            /\ (Has(f, "append_user") /\ ~f.hadUser => Has(f, "detect"))
            /\ (f.hadUser => ~Has(f, "detect"))

\* A turn that began with a user message in the transcript appended its own
\* without a detection, after an earlier turn's detection.
C6_Witness ==
    \E r \in Reqs :
        /\ frame[r].hadUser
        /\ Has(frame[r], "append_user")
        /\ ~Has(frame[r], "detect")
        /\ detections[frame[r].sender.phone_number] >= 1

\* C7: in both handlers a turn that appended a user message, obtained a
\* completion reply and is answered ok has called the Conversation Store's save
\* before returning, after the assistant message and any directive audit
\* message were appended, and the store then holds the transcript.
C7_RepliedTurnIsPersisted ==
    \A r \in Reqs :
        LET f == frame[r]
            p == f.sender.phone_number
        IN  (f.pc = "done" /\ f.resp = "ok" /\ Has(f, "append_user") /\ f.replied) =>
              /\ Has(f, "save")
              /\ Has(f, "append_assistant")
              /\ First(f, "append_assistant") < First(f, "save")
              /\ (Has(f, "append_system") => First(f, "append_system") < First(f, "save"))
              /\ p \in DOMAIN store
              /\ store[p] = Transcript(f)

\* C8: in both handlers, with a start template configured, from the resolve
\* step of a turn to its end messages[0] is a system message whose content is
\* the template rendered with the turn's sender name and the current date, no
\* other message of the transcript has that content, and the resolve step left
\* the transcript's length as get_or_create returned it.
C8_SystemMessageIsLive ==
    \A r \in Reqs :
        LET f == frame[r]
            system == Format(start_template, f.sender.name, Dates[today])
        IN  (start_template # << >> /\ Has(f, "get_or_create") /\ ~Free(r)) =>
              /\ Len(Transcript(f)) >= 1
              /\ Transcript(f)[1] = MakeMessage(system, "system")
              /\ \A k \in 2..Len(Transcript(f)) : Transcript(f)[k].content # system
              /\ f.len1 = f.len0

\* C9: in both handlers a turn invokes the image generation only for a reply
\* that carried a directive, once, and only right after appending the
\* system-role message [img:"<prompt>"] right after the turn's assistant
\* message; a turn whose reply carried a directive and that is answered ok has
\* done so, and one whose reply carried none appends no such message.
C9_DirectiveIsAuditedThenFulfilled ==
    \A r \in Reqs :
        LET f == frame[r]
            n == Len(Transcript(f))
        IN  /\ (Has(f, "image_generation") =>
                  /\ f.img_prompt # << >>
                  /\ Count(f, "image_generation") = 1
                  /\ Count(f, "append_system") = 1
                  /\ First(f, "append_system") = First(f, "append_assistant") + 1
                  /\ First(f, "image_generation") = First(f, "append_system") + 1
                  /\ n >= 2
                  /\ Transcript(f)[n] = MakeMessage(Marker(f.img_prompt), "system")
                  /\ Transcript(f)[n - 1] = MakeMessage(f.reply, "assistant"))
            /\ (f.pc = "done" /\ f.resp = "ok" /\ f.replied /\ f.img_prompt # << >> =>
                  Has(f, "image_generation"))
            /\ (f.replied /\ f.img_prompt = << >> =>
                  ~Has(f, "append_system") /\ ~Has(f, "image_generation"))

\* C10: the Cloud handler answers every malformed webhook body with the ok
\* acknowledgment, never with an error, and for such a body makes no outbound
\* call, marks nothing read and takes no step on any conversation.
C10_MalformedBodyIsAcknowledged ==
    \A r \in Reqs :
        LET f == frame[r]
        IN  (transport = "cloud" /\ f.malformed) =>
              /\ (f.pc = "done" => f.resp = "ok")
              /\ f.out = << >>
              /\ f.trace = << >>

\* The turn's directive fulfillment failed: an outbound call of the directive
\* step failed, or the step sent the image apology.
DirectiveFailed(f) ==
    \E k \in 1..Len(f.out) :
        f.out[k].phase = "directive" /\ (~f.out[k].ok \/ f.out[k].text = ImageApology)

\* The directive step handed the image apology to the channel, as the text of
\* a call or in place of a failed one.
ImageApologySent(f) ==
    \E k \in 1..Len(f.out) :
        /\ f.out[k].phase = "directive"
        /\ (f.out[k].text = ImageApology \/ f.out[k].emitted = <<ImageApology>>)

\* C11: in both handlers, when the directive fulfillment of a turn fails (the
\* image generation raises, or the send of the image or of the apology
\* raises), the failure does not leave the turn, the assistant message the turn
\* appended stays the last assistant message of the transcript, and once the
\* turn is over the image apology was handed to the channel, the conversation
\* was saved and the answer is ok.
C11_DirectiveFailureIsIsolated ==
    \A r \in Reqs :
        LET f == frame[r]
            last == LastOf(Transcript(f), "assistant")
        IN  DirectiveFailed(f) =>
              /\ ~Failed(f)
              /\ Has(f, "append_assistant")
              /\ last > 0
              /\ Transcript(f)[last].content = f.reply
              /\ (f.pc = "done" =>
                    /\ ImageApologySent(f)
                    /\ Has(f, "save")
                    /\ f.resp = "ok")

\* Two handlers work on the same sender's conversation.
SameSender(f, g) ==
    /\ f.sender.phone_number = g.sender.phone_number
    /\ f.sender.phone_number \in DOMAIN chats

\* The turn has appended its user message and not yet its assistant message.
Unanswered(f) == f.pc # "done" /\ Has(f, "append_user") /\ ~Has(f, "append_assistant")

\* C12: when the handling of two messages of one sender overlaps, the turns on
\* the conversation are serialized: the assistant message of a turn is the
\* message right after the turn's user message, no turn appends its user
\* message after that of a turn that is still to append its assistant message,
\* and the messages handed to a turn's completion call hold no user message
\* of another turn that is still to append its assistant message.
C12_TurnsAreSerialized ==
    \A r \in Reqs :
        LET f == frame[r]
        IN  /\ (Has(f, "append_assistant") =>
                  /\ Len(Transcript(f)) > f.userAt
                  /\ Transcript(f)[f.userAt + 1] = MakeMessage(f.reply, "assistant"))
            /\ \A q \in Reqs \ {r} :
                  LET g == frame[q]
                  IN  (SameSender(f, g) /\ Unanswered(g)) =>
                        /\ (Has(f, "append_user") => f.userAt < g.userAt)
                        /\ (f.replied => Len(f.prompt) < g.userAt)

\* The completion call of the turn raised.
CompletionFailed(f) == Has(f, "completion") /\ ~f.replied

\* C13: in both handlers, when the completion call fails after the user
\* message was appended, the call was made once, the turn ends with an error
\* outcome for the handler's caller, no outbound call was made and no
\* assistant message appended, and the user message stays: the transcript is
\* one message longer than the turn found it and ends with the user message.
\* A turn that finds a user message at the end of the transcript appends its
\* own right after it.
C13_FailedCompletionKeepsUserMessage ==
    \A r \in Reqs :
        LET f == frame[r]
            t == Transcript(f)
        IN  /\ (CompletionFailed(f) =>
                  /\ Count(f, "completion") = 1
                  /\ f.pc = "done"
                  /\ Failed(f)
                  /\ f.out = << >>
                  /\ ~Has(f, "append_assistant")
                  /\ Count(f, "append_user") = 1
                  /\ Len(t) = f.len0 + 1
                  /\ t[Len(t)] = MakeMessage(f.msg, "user"))
            /\ (Has(f, "append_user") /\ t[f.len0].role = "user" =>
                  /\ f.userAt = f.len0 + 1
                  /\ t[f.userAt] = MakeMessage(f.msg, "user"))

\* A completion failed in a turn that had appended its user message.
C13_Witness ==
    \E r \in Reqs :
        /\ CompletionFailed(frame[r])
        /\ Has(frame[r], "append_user")
        /\ Failed(frame[r])

\* A turn after one whose completion failed was replied to, and its user
\* message follows the other's in the transcript.
C13_WitnessTwoUserMessages ==
    \E r \in Reqs :
        LET f == frame[r]
        IN  /\ transport = "twilio"
            /\ Has(f, "append_assistant")
            /\ Transcript(f)[f.len0].role = "user"
            /\ Transcript(f)[f.len0 + 1].role = "user"

\* The positions of the turn's steps of the kind.
Steps(f, ev) == {k \in 1..Len(f.trace) : f.trace[k] = ev}

\* C14: in both handlers a turn that obtained a completion reply appended its
\* user message, once, before the completion call; once the turn is over it
\* has appended one assistant message, the whole cleaned reply, right after
\* the user message; and the assistant message is appended after every send
\* call of the relay was made, with no message appended for a chunk.
C14_OneUserOneAssistantPerTurn ==
    \A r \in Reqs :
        LET f == frame[r]
            t == Transcript(f)
        IN  f.replied =>
              /\ Count(f, "append_user") = 1
              /\ First(f, "append_user") < First(f, "completion")
              /\ f.userAt = f.len0 + 1
              /\ t[f.userAt] = MakeMessage(f.msg, "user")
              /\ Count(f, "append_assistant") <= 1
              /\ (f.pc = "done" => Count(f, "append_assistant") = 1)
              /\ (Has(f, "append_assistant") =>
                    /\ t[f.userAt + 1] = MakeMessage(f.reply, "assistant")
                    /\ Len(RelayCalls(f)) = SendsFor(Len(f.reply))
                    /\ Cardinality({k \in Steps(f, "send") :
                                       k < First(f, "append_assistant")})
                          = SendsFor(Len(f.reply))
                    /\ \A k \in f.userAt + 2..Len(t) : t[k].role = "system")

\* How many characters of the reply a text of the relay carries: all of it
\* but the "..." at its end.  No reply holds a "." of its own.
Carried(text) == IF EndsWithEllipsis(text) THEN Len(text) - Len(Ellipsis) ELSE Len(text)

\* C15: for a cleaned reply of any length, every text the reply-relay step
\* hands to an outbound send call, "..." included, is at most 1600 characters
\* long, and when the reply was split it carries at most 1500 characters of
\* the reply.
C15_RelayedTextsFitTheChannel ==
    \A r \in Reqs :
        LET f == frame[r]
            calls == RelayCalls(f)
        IN  \A k \in 1..Len(calls) :
              /\ Len(calls[k].text) <= ChannelLimit
              /\ (Len(f.reply) > ChannelLimit \/ Len(calls) > 1 =>
                    Carried(calls[k].text) <= ChunkStep)

\* A reply was split and one of its texts is a full chunk with its "...".
C15_Witness ==
    \E r \in Reqs :
        LET calls == RelayCalls(frame[r])
        IN  /\ Len(calls) > 1
            /\ \E k \in 1..Len(calls) :
                  /\ EndsWithEllipsis(calls[k].text)
                  /\ Len(calls[k].text) = ChunkStep + Len(Ellipsis)

====
